---- MODULE Spec2Model ----
(***************************************************************************)
(* Model of the Advent of Code automation harness:                         *)
(*   RUN_EVERY_DAY.py  - the day-range scaffolder (main, process_day, ...)  *)
(*   AOC_TEMPLATE.py   - the per-day solution harness (load_session,        *)
(*                       get_input, cache_input, submit)                    *)
(* Texts (file contents, response bodies, tokens) are sequences of tokens;  *)
(* a token is a record [t, d]: a piece of text t, parameterised by a day d  *)
(* where the text embeds a day number (d = 0 otherwise).                    *)
(***************************************************************************)
EXTENDS Integers, Sequences, FiniteSets, TLC

VARIABLES
    fs,         \* the host filesystem: path -> [exists, text]
    shellenv,   \* AOC_SESSION_ID in the environment the process is started with
    environ,    \* AOC_SESSION_ID in os.environ of the running process
    args,       \* the parsed command line of the scaffolder run
    pc,         \* position of the scaffolder: start, loop, sleep, done, exit
    day,        \* the loop variable of main's for loop
    last,       \* the last process_day call: its day, the responses it got, its result
    requested,  \* the requests issued by the current run
    written,    \* the paths written (or created) by the current run
    runs,       \* number of scaffolder runs started
    hpc,        \* position of the harness: off, or the last harness call and its outcome
    body,       \* the response body the harness last received
    out,        \* what the last load_session / get_input call returned
    verdict,    \* what the last submit call returned
    remote,     \* day -> the answers the remote service has given for the day
    fs0,        \* the filesystem as it was before the first run
    crash       \* where the first run was interrupted: the day, the writes done

vars == <<fs, shellenv, environ, args, pc, day, last, requested, written, runs, hpc, body, out, verdict, remote, fs0, crash>>

----------------------------------------------------------------------------
(* Bounds *)

MaxDay == 2         \* days 1..MaxDay stand for the days 1..25
MaxArticles == 2    \* a puzzle page holds 0..MaxArticles article elements
MaxRuns == 2        \* runs of the scaffolder over one day
MaxLen == 2         \* length of a session string (explicit, environment, file)
MaxInput == 2       \* length of an input-download response body
MaxBody == 3        \* length (in phrases) of a submission response body

Days == 1..MaxDay

----------------------------------------------------------------------------
(* Texts *)

Tok(t, d) == [t |-> t, d |-> d]

NL == Tok("\n", 0)
SP == Tok(" ", 0)

\* what str.strip() / str.rstrip() without argument remove
Whitespace == {NL, SP}

RECURSIVE RStrip(_, _)
RStrip(s, chars) ==
    IF s = <<>> THEN s
    ELSE IF s[Len(s)] \in chars THEN RStrip(SubSeq(s, 1, Len(s) - 1), chars)
    ELSE s

RECURSIVE LStrip(_, _)
LStrip(s, chars) ==
    IF s = <<>> THEN s
    ELSE IF s[1] \in chars THEN LStrip(Tail(s), chars)
    ELSE s

Strip(s, chars) == LStrip(RStrip(s, chars), chars)

\* str.replace(old, new) for a one-token placeholder
Replace(s, old, new) == [i \in 1..Len(s) |-> IF s[i] = old THEN new ELSE s[i]]

\* an optional text: a file that may not exist, a variable that may be None
NoValue == [exists |-> FALSE, text |-> <<>>]
Some(text) == [exists |-> TRUE, text |-> text]

----------------------------------------------------------------------------
(* Paths *)

Path(n, d) == [n |-> n, d |-> d]

TEMPLATE_FILE == Path("AOC_TEMPLATE.py", 0)
RUST_TEMPLATE_FILE == Path("AOC_TEMPLATE.rs", 0)
CargoToml == Path("Cargo.toml", 0)
SessionFile == Path("SessionID.txt", 0)

DayDir(d) == Path("Day_NN", d)
InstructionsOne(d) == Path("instructions-one.md", d)
InstructionsTwo(d) == Path("instructions-two.md", d)
ExampleFile(d) == Path("Example_NN.txt", d)
InputPadded(d) == Path("input_NN.txt", d)
SolutionPath(d) == Path("Solution_NN.py", d)
BinPath(d) == Path("dayNN.rs", d)

\* the harness's files, relative to its BASE_DIR = Day_NN
InputPrimary(d) == Path("input.txt", d)
InputUnpadded(d) == IF d >= 10 THEN InputPadded(d) ELSE Path("input_N.txt", d)
DaySessionFile(d) == Path("SessionID.txt", d)

DayPaths(d) ==
    {DayDir(d), InstructionsOne(d), InstructionsTwo(d), ExampleFile(d),
     InputPadded(d), SolutionPath(d), BinPath(d),
     InputPrimary(d), InputUnpadded(d), DaySessionFile(d)}

Paths ==
    {TEMPLATE_FILE, RUST_TEMPLATE_FILE, CargoToml, SessionFile}
        \cup UNION {DayPaths(d) : d \in Days}

\* a world is the filesystem together with the log of paths written
MkDir(w, p) ==
    IF w.fs[p].exists THEN w
    ELSE [fs |-> [w.fs EXCEPT ![p] = Some(<<>>)], written |-> w.written \cup {p}]

WriteText(w, p, text) ==
    [fs |-> [w.fs EXCEPT ![p] = Some(text)], written |-> w.written \cup {p}]

----------------------------------------------------------------------------
(* RUN_EVERY_DAY.py: session resolution *)

\* one candidate of load_session: a string candidate resolves when its strip()
\* is non-empty, a path candidate resolves when the file exists
StrCandidate(c) == c.exists /\ Strip(c.text, Whitespace) # <<>>
PathCandidate(f) == f.exists

\* what a call returns: a text, or the exception it ends with
Resolved(text) == [ok |-> TRUE, text |-> text]
Missing == [ok |-> FALSE, text |-> <<>>]

\* load_session(explicit): explicit, then AOC_SESSION_ID, then SessionID.txt
load_session(explicit, env, file) ==
    IF StrCandidate(explicit) THEN Resolved(Strip(explicit.text, Whitespace))
    ELSE IF StrCandidate(env) THEN Resolved(Strip(env.text, Whitespace))
    ELSE IF PathCandidate(file) THEN Resolved(Strip(file.text, Whitespace))
    ELSE Missing

----------------------------------------------------------------------------
(* RUN_EVERY_DAY.py: file helpers *)

\* html2text's rendering of an article: the article's text and blank lines
Html2Text(article) == <<NL, Tok("md", article.d), NL, NL>>

save_markdown(w, article, path) ==
    WriteText(w, path, Strip(Html2Text(article), {NL}))
\* save_input without the rstrip
save_input_raw(w, text, d) == WriteText(w, InputPadded(d), text)

save_input(w, text, d) ==
    WriteText(w, InputPadded(d), RStrip(text, {NL}))

\* soup.select_one("article pre code"): the first code block inside an article
extract_example(page) ==
    IF page.articles # <<>> /\ page.code.exists
    THEN Some(RStrip(page.code.text, {NL}))
    ELSE NoValue

\* the template texts
PyTemplateText == <<Tok("harness", 0), NL>>
RustTemplateText == <<Tok("{{DAY}}", 0), Tok("{{DAY_PAD}}", 0), NL>>
RUST_FALLBACK == <<Tok("fallback", 0), Tok("{{DAY}}", 0), NL>>
\* a stub the user has worked on
EditedText == <<Tok("solved", 0), NL>>
\* copy_python_template without the test for an existing stub
copy_python_template_always(w, d, force_template) ==
    IF w.fs[TEMPLATE_FILE].exists
    THEN WriteText(w, SolutionPath(d), w.fs[TEMPLATE_FILE].text)
    ELSE w

\* copy_python_template that never replaces an existing stub
copy_python_template_no_force(w, d, force_template) ==
    IF w.fs[SolutionPath(d)].exists THEN w
    ELSE IF w.fs[TEMPLATE_FILE].exists
         THEN WriteText(w, SolutionPath(d), w.fs[TEMPLATE_FILE].text)
         ELSE w

copy_python_template(w, d, force_template) ==
    IF w.fs[SolutionPath(d)].exists /\ ~force_template THEN w
    ELSE IF w.fs[TEMPLATE_FILE].exists
         THEN WriteText(w, SolutionPath(d), w.fs[TEMPLATE_FILE].text)
         ELSE w

\* the text of a [[bin]] block of the manifest, and the manifest line the
\* regular expression name\s*=\s*"dayNN" finds
BinBlock(d) ==
    <<NL, Tok("[[bin]]", 0), NL, Tok("name", d), NL, Tok("path", d), NL>>

NamePresent(text, d) == \E i \in 1..Len(text) : text[i] = Tok("name", d)
\* register_bin_in_cargo without the search for the name
register_bin_in_cargo_always(w, d) ==
    IF ~w.fs[CargoToml].exists THEN w
    ELSE WriteText(w, CargoToml,
                   RStrip(w.fs[CargoToml].text, Whitespace) \o BinBlock(d) \o <<NL>>)

register_bin_in_cargo(w, d) ==
    IF ~w.fs[CargoToml].exists THEN w
    ELSE IF NamePresent(w.fs[CargoToml].text, d) THEN w
    ELSE WriteText(w, CargoToml,
                   RStrip(w.fs[CargoToml].text, Whitespace) \o BinBlock(d) \o <<NL>>)

RustContents(w, d) ==
    Replace(Replace(IF w.fs[RUST_TEMPLATE_FILE].exists
                    THEN w.fs[RUST_TEMPLATE_FILE].text
                    ELSE RUST_FALLBACK,
                    Tok("{{DAY}}", 0), Tok("DAY", d)),
            Tok("{{DAY_PAD}}", 0), Tok("DAY_PAD", d))

\* scaffold_rust_bin up to its call of register_bin_in_cargo
write_rust_bin(w, d) ==
    IF ~w.fs[BinPath(d)].exists
    THEN WriteText(w, BinPath(d), RustContents(w, d))
    ELSE w

\* scaffold_rust_bin that registers only the stub it has just created
scaffold_rust_bin_register_new(w, d) ==
    IF ~w.fs[BinPath(d)].exists
    THEN register_bin_in_cargo(WriteText(w, BinPath(d), RustContents(w, d)), d)
    ELSE w

scaffold_rust_bin(w, d) == register_bin_in_cargo(write_rust_bin(w, d), d)

\* precreate_day without its mkdir
precreate_day_no_mkdir(w, d, a) ==
    LET w2 == IF a.copy_template THEN copy_python_template(w, d, a.force_template) ELSE w
    IN  IF a.scaffold_rust THEN scaffold_rust_bin(w2, d) ELSE w2

precreate_day(w, d, a) ==
    LET w1 == MkDir(w, DayDir(d))
        w2 == IF a.copy_template THEN copy_python_template(w1, d, a.force_template) ELSE w1
    IN  IF a.scaffold_rust THEN scaffold_rust_bin(w2, d) ELSE w2

----------------------------------------------------------------------------
(* RUN_EVERY_DAY.py: process_day *)

\* the HTTP statuses the remote service answers with
StatusOk == 200
StatusNotFound == 404
StatusError == 500
Statuses == {StatusOk, StatusNotFound, StatusError}

Article(i) == Tok("article", i)
Articles(n) == [i \in 1..n |-> Article(i)]

CodeBlock == Some(<<Tok("sample", 0), NL>>)
InputBodies == {<<Tok("3", 0), NL>>, <<Tok("1", 0), NL, NL>>}

Page(n, code) == [articles |-> Articles(n), code |-> code]
NoPage == Page(0, NoValue)

InputResponse(status, text) == [status |-> status, text |-> text]
NoInput == InputResponse(0, <<>>)
InputResponses ==
    {InputResponse(StatusOk, b) : b \in InputBodies}
        \cup {InputResponse(s, <<>>) : s \in Statuses \ {StatusOk}}

Response(status, page, input) == [status |-> status, page |-> page, input |-> input]

\* what the remote service may answer to the requests of one process_day call
\* (input is the answer to the input request, if the call gets to issue it):
\* an error status, a page without articles, and pages of 1..MaxArticles
\* articles, with or without a code block, whose input is served or refused
Responses ==
    {Response(s, NoPage, NoInput) : s \in Statuses \ {StatusOk}}
        \cup {Response(StatusOk, Page(0, NoValue), NoInput)}
        \cup {Response(StatusOk, Page(n, c), i) :
                n \in 1..MaxArticles, c \in {NoValue, CodeBlock}, i \in InputResponses}

PageReq(d) == [kind |-> "page", d |-> d]
InputReq(d) == [kind |-> "input", d |-> d]
\* SaveInstructions that writes instructions-two.md for a page of one article too
SaveInstructions_always_two(w, d, articles) ==
    LET w1 == save_markdown(w, articles[1], InstructionsOne(d))
    IN  save_markdown(w1, articles[Len(articles)], InstructionsTwo(d))

\* process_day, "Save instructions": the first article, and the second if any
SaveInstructions(w, d, articles) ==
    LET w1 == save_markdown(w, articles[1], InstructionsOne(d))
    IN  IF Len(articles) > 1
        THEN save_markdown(w1, articles[2], InstructionsTwo(d))
        ELSE w1

\* process_day, "Save example (first code block)"
SaveExample(w, d, page) ==
    LET example == extract_example(page)
    IN  IF example.exists /\ example.text # <<>>
        THEN WriteText(w, ExampleFile(d), example.text)
        ELSE w
\* FetchInput that saves the body of an error response too
FetchInput_any_status(w, d, input) == save_input(w, input.text, d)

\* process_day, "Fetch input": saved on 200, a warning otherwise
FetchInput(w, d, input) ==
    IF input.status = StatusOk THEN save_input(w, input.text, d) ELSE w

\* process_day, "Copy template" and the Rust scaffolding
ScaffoldTemplates(w, d, a) ==
    LET w1 == IF a.copy_template THEN copy_python_template(w, d, a.force_template) ELSE w
    IN  IF a.scaffold_rust THEN scaffold_rust_bin(w1, d) ELSE w1

\* the body of process_day after the page was parsed and has articles
PersistDay(w, d, a, resp) ==
    LET w1 == MkDir(w, DayDir(d))
        w2 == SaveInstructions(w1, d, resp.page.articles)
        w3 == SaveExample(w2, d, resp.page)
        w4 == FetchInput(w3, d, resp.input)
    IN  ScaffoldTemplates(w4, d, a)

\* process_day: the world it leaves, the requests it issued, its return value
process_day(w, d, a, resp) ==
    IF resp.status = StatusNotFound
    THEN [w |-> precreate_day(w, d, a), reqs |-> {PageReq(d)}, ok |-> FALSE]
    ELSE IF resp.status # StatusOk
    THEN [w |-> w, reqs |-> {PageReq(d)}, ok |-> TRUE]
    ELSE IF resp.page.articles = <<>>
    THEN [w |-> w, reqs |-> {PageReq(d)}, ok |-> FALSE]
    ELSE [w |-> PersistDay(w, d, a, resp), reqs |-> {PageReq(d), InputReq(d)}, ok |-> TRUE]

----------------------------------------------------------------------------
(* RUN_EVERY_DAY.py: main *)

ArgSet ==
    [start_day : Days, end_day : Days,
     copy_template : BOOLEAN, force_template : BOOLEAN, scaffold_rust : BOOLEAN,
     session : {NoValue, Some(<<Tok("s", 0)>>)}]

NoArgs ==
    [start_day |-> 1, end_day |-> 1,
     copy_template |-> FALSE, force_template |-> FALSE, scaffold_rust |-> FALSE,
     session |-> NoValue]

\* what is kept of a process_day call: its day, the statuses it was answered
\* with, the number of articles of the page, its return value
Call(d, resp, ok) ==
    [day |-> d, status |-> resp.status, articles |-> Len(resp.page.articles),
     input_status |-> resp.input.status, ok |-> ok]

NoCall == Call(0, Response(0, NoPage, NoInput), TRUE)

\* main up to the for loop, called with the arguments a: resolve the session
\* (a missing credential ends the process), export it, enter the loop
Invoke(a) ==
    LET s == load_session(a.session, shellenv, fs[SessionFile]) IN
    /\ args' = a
    /\ runs' = runs + 1
    /\ requested' = {}
    /\ written' = {}
    /\ last' = NoCall
    /\ IF s.ok
       THEN /\ environ' = Some(s.text)
            /\ day' = a.start_day
            /\ pc' = "loop"
       ELSE /\ environ' = shellenv
            /\ day' = 0
            /\ pc' = "exit"
    /\ UNCHANGED <<fs, shellenv, hpc, body, out, verdict, remote, fs0, crash>>

\* the scaffolder is run, over any range of days
Main ==
    /\ pc = "start"
    /\ hpc = "off"
    /\ \E a \in ArgSet : Invoke(a)

\* the scaffolder is run, and run again, over one and the same day
\* (--start-day d --end-day d)
MainOneDay ==
    /\ pc \in {"start", "done", "exit"}
    /\ hpc = "off"
    /\ runs < MaxRuns
    /\ \E a \in ArgSet :
        /\ a.start_day = a.end_day
        /\ runs > 0 => a.start_day = args.start_day
        /\ Invoke(a)

\* main without the break
AfterDay_no_break(ok) == "sleep"

AfterDay(ok) == IF ok THEN "sleep" ELSE "done"

\* one iteration of the loop: process_day and the test of its result
ProcessDay ==
    /\ pc = "loop"
    /\ day <= args.end_day
    /\ \E resp \in Responses :
        LET r == process_day([fs |-> fs, written |-> written], day, args, resp) IN
        /\ fs' = r.w.fs
        /\ written' = r.w.written
        /\ requested' = requested \cup r.reqs
        /\ last' = Call(day, resp, r.ok)
        /\ pc' = AfterDay(r.ok)
    /\ UNCHANGED <<shellenv, environ, args, day, runs, hpc, body, out, verdict, remote, fs0, crash>>

\* time.sleep(max(args.delay, 0)) and the step of the for loop
Sleep ==
    /\ pc = "sleep"
    /\ day' = day + 1
    /\ pc' = "loop"
    /\ UNCHANGED <<fs, shellenv, environ, args, last, requested, written, runs, hpc, body, out, verdict, remote, fs0, crash>>

\* the range is exhausted
Finish ==
    /\ pc = "loop"
    /\ day > args.end_day
    /\ pc' = "done"
    /\ UNCHANGED <<fs, shellenv, environ, args, day, last, requested, written, runs, hpc, body, out, verdict, remote, fs0, crash>>

\* the working directories a run may start in
EmptyFs == [p \in Paths |-> NoValue]

Manifest == <<Tok("[package]", 0), NL, Tok("name", 0), NL>>

\* a fresh checkout: the templates and the manifest, no day folder
FreshFs ==
    [EmptyFs EXCEPT ![TEMPLATE_FILE] = Some(PyTemplateText),
                    ![RUST_TEMPLATE_FILE] = Some(RustTemplateText),
                    ![CargoToml] = Some(Manifest)]

\* a checkout in use: day 1 solved by the user and registered by hand, its
\* input cached, no Rust template
UsedFs ==
    [EmptyFs EXCEPT ![TEMPLATE_FILE] = Some(PyTemplateText),
                    ![CargoToml] = Some(Manifest \o BinBlock(1)),
                    ![DayDir(1)] = Some(<<>>),
                    ![InputPadded(1)] = Some(<<Tok("9", 0)>>),
                    ![SolutionPath(1)] = Some(EditedText),
                    ![BinPath(1)] = Some(EditedText)]

\* a bare directory: neither templates nor manifest
BareFs == EmptyFs

InitialFs == {FreshFs, UsedFs, BareFs}

\* no answer recorded, no run interrupted
NoAnswer == Response(0, NoPage, NoInput)
NoCrash == [day |-> 0, writes |-> 0]

Untried ==
    /\ remote = [d \in Days |-> NoAnswer]
    /\ fs0 = fs
    /\ crash = NoCrash

Init ==
    /\ fs \in InitialFs
    /\ shellenv = NoValue
    /\ environ = shellenv
    /\ args = NoArgs
    /\ pc = "start"
    /\ day = 0
    /\ last = NoCall
    /\ requested = {}
    /\ written = {}
    /\ runs = 0
    /\ hpc = "off"
    /\ body = <<>>
    /\ out = Missing
    /\ verdict = "NONE"
    /\ Untried

\* one run of the scaffolder over a range of days
Next == Main \/ ProcessDay \/ Sleep \/ Finish

Spec == Init /\ [][Next]_vars

\* repeated runs of the scaffolder over one day
NextRerun == MainOneDay \/ ProcessDay \/ Sleep \/ Finish

SpecRerun == Init /\ [][NextRerun]_vars

----------------------------------------------------------------------------
(* RUN_EVERY_DAY.py: a run that is interrupted, and the run after it *)

\* the worlds the templates part of a day passes through: after the copy of
\* the Python stub, after the write of the Rust stub, after the registration
ScaffoldTrace(w, d, a) ==
    LET w1 == IF a.copy_template THEN copy_python_template(w, d, a.force_template) ELSE w
        w2 == IF a.scaffold_rust THEN write_rust_bin(w1, d) ELSE w1
        w3 == IF a.scaffold_rust THEN register_bin_in_cargo(w2, d) ELSE w2
    IN  <<w1, w2, w3>>

\* the worlds precreate_day passes through, one per write
PrecreateTrace(w, d, a) ==
    LET w1 == MkDir(w, DayDir(d))
    IN  <<w1>> \o ScaffoldTrace(w1, d, a)

\* the worlds the body of process_day passes through, one per write
PersistTrace(w, d, a, resp) ==
    LET w1 == MkDir(w, DayDir(d))
        w2 == save_markdown(w1, resp.page.articles[1], InstructionsOne(d))
        w3 == SaveInstructions(w1, d, resp.page.articles)
        w4 == SaveExample(w3, d, resp.page)
        w5 == FetchInput(w4, d, resp.input)
    IN  <<w1, w2, w3, w4, w5>> \o ScaffoldTrace(w5, d, a)

\* the worlds one process_day call passes through, from the world it starts
\* in to the world it leaves
DayTrace(w, d, a, resp) ==
    IF resp.status = StatusNotFound THEN <<w>> \o PrecreateTrace(w, d, a)
    ELSE IF resp.status = StatusOk /\ resp.page.articles # <<>>
    THEN <<w>> \o PersistTrace(w, d, a, resp)
    ELSE <<w>>

\* the number of writes of PersistTrace after which the input was requested
InputRequested == 4

\* the requests a process_day call has issued after its first k writes
RequestsAfter(d, resp, k) ==
    IF resp.status = StatusOk /\ resp.page.articles # <<>> /\ k >= InputRequested
    THEN {PageReq(d), InputReq(d)}
    ELSE {PageReq(d)}

\* the remote service answers a day the same way every time it is asked
Answers(d) == IF remote[d] = NoAnswer THEN Responses ELSE {remote[d]}

\* the first run of the scaffolder, over one day (--start-day d --end-day d)
\* and without --force-template
MainFirst ==
    /\ pc = "start"
    /\ hpc = "off"
    /\ \E a \in ArgSet :
        /\ a.start_day = a.end_day
        /\ ~a.force_template
        /\ Invoke(a)

\* one iteration of the loop, the answer of the remote service recorded
ProcessAnswered ==
    /\ pc = "loop"
    /\ day <= args.end_day
    /\ \E resp \in Answers(day) :
        LET r == process_day([fs |-> fs, written |-> written], day, args, resp) IN
        /\ fs' = r.w.fs
        /\ written' = r.w.written
        /\ requested' = requested \cup r.reqs
        /\ last' = Call(day, resp, r.ok)
        /\ pc' = AfterDay(r.ok)
        /\ remote' = [remote EXCEPT ![day] = resp]
    /\ UNCHANGED <<shellenv, environ, args, day, runs, hpc, body, out, verdict, fs0, crash>>

\* the first run is killed inside an iteration of the loop, after any number
\* of the writes of its process_day call
Interrupt ==
    /\ pc = "loop"
    /\ day <= args.end_day
    /\ runs = 1
    /\ \E resp \in Answers(day) :
        LET t == DayTrace([fs |-> fs, written |-> written], day, args, resp) IN
        \E k \in 1..Len(t) :
            /\ fs' = t[k].fs
            /\ written' = t[k].written
            /\ requested' = requested \cup RequestsAfter(day, resp, k - 1)
            /\ crash' = [day |-> day, writes |-> k - 1]
            /\ remote' = [remote EXCEPT ![day] = resp]
    /\ pc' = "crashed"
    /\ UNCHANGED <<shellenv, environ, args, day, last, runs, hpc, body, out, verdict, fs0>>

\* the scaffolder is run again with the same arguments, after a run that
\* completed, gave up or was interrupted
MainAgain ==
    /\ pc \in {"done", "exit", "crashed"}
    /\ hpc = "off"
    /\ runs = 1
    /\ Invoke(args)

NextCrash == MainFirst \/ ProcessAnswered \/ Interrupt \/ MainAgain \/ Sleep \/ Finish

SpecCrash == Init /\ [][NextCrash]_vars

\* the for loop of main from day d on, as one uninterrupted run over the
\* recorded answers: the world it leaves
RECURSIVE RunFrom(_, _, _)
RunFrom(w, d, a) ==
    IF d > a.end_day THEN w
    ELSE LET r == process_day(w, d, a, remote[d])
         IN  IF r.ok THEN RunFrom(r.w, d + 1, a) ELSE r.w

----------------------------------------------------------------------------
(* AOC_TEMPLATE.py: the per-day harness, run from its folder Day_NN *)

\* load_session(): AOC_SESSION_ID, then Day_NN/SessionID.txt, then ../SessionID.txt
harness_load_session(env, dayfile, rootfile) ==
    IF StrCandidate(env) THEN Resolved(Strip(env.text, Whitespace))
    ELSE IF PathCandidate(dayfile) THEN Resolved(Strip(dayfile.text, Whitespace))
    ELSE IF PathCandidate(rootfile) THEN Resolved(Strip(rootfile.text, Whitespace))
    ELSE Missing

INPUT_CANDIDATES(d) == <<InputPrimary(d), InputPadded(d), InputUnpadded(d)>>

RECURSIVE FirstExisting(_, _)
FirstExisting(files, candidates) ==
    IF candidates = <<>> THEN NoValue
    ELSE IF files[Head(candidates)].exists THEN Some(files[Head(candidates)].text)
    ELSE FirstExisting(files, Tail(candidates))

read_cached_input(files, d) == FirstExisting(files, INPUT_CANDIDATES(d))

cache_input(w, contents, d) ==
    LET w1 == WriteText(w, InputPrimary(d), contents)
    IN  IF InputPadded(d) # InputPrimary(d) THEN WriteText(w1, InputPadded(d), contents) ELSE w1

\* get_input: the cached input, else the downloaded one, which it caches;
\* how tells which way the call went
get_input(w, d, resp) ==
    LET cached == read_cached_input(w.fs, d) IN
    IF cached.exists
    THEN [w |-> w, how |-> "cache_hit", ret |-> Resolved(cached.text)]
    ELSE IF resp.status # StatusOk
    THEN [w |-> w, how |-> "fetch_failed", ret |-> Missing]
    ELSE [w |-> cache_input(w, resp.text, d), how |-> "cached", ret |-> Resolved(resp.text)]

\* the phrases submit looks for in the response body, and any other text
RateLimitPhrase == Tok("You gave an answer too recently", 0)
WrongPhrase == Tok("not the right answer", 0)
TooLowPhrase == Tok("too low", 0)
TooHighPhrase == Tok("too high", 0)
SolvedPhrase == Tok("You don't seem to be solving the right level.", 0)
OtherText == Tok("That's the right answer!", 0)

Phrases == {RateLimitPhrase, WrongPhrase, TooLowPhrase, TooHighPhrase, SolvedPhrase, OtherText}

\* phrase in text
Contains(text, phrase) == \E i \in 1..Len(text) : text[i] = phrase
\* submit with the wrong-answer test ahead of the rate-limit test
Classify_wrong_first(text) ==
    IF Contains(text, WrongPhrase)
    THEN IF Contains(text, TooLowPhrase) THEN "WRONG (TOO LOW)"
         ELSE IF Contains(text, TooHighPhrase) THEN "WRONG (TOO HIGH)"
         ELSE "WRONG"
    ELSE IF Contains(text, RateLimitPhrase) THEN "TOO MANY REQUESTS"
    ELSE IF Contains(text, SolvedPhrase) THEN "ALREADY SOLVED"
    ELSE "OK"

\* the verdict submit derives from the response body
Classify(text) ==
    IF Contains(text, RateLimitPhrase) THEN "TOO MANY REQUESTS"
    ELSE IF Contains(text, WrongPhrase)
    THEN IF Contains(text, TooLowPhrase) THEN "WRONG (TOO LOW)"
         ELSE IF Contains(text, TooHighPhrase) THEN "WRONG (TOO HIGH)"
         ELSE "WRONG"
    ELSE IF Contains(text, SolvedPhrase) THEN "ALREADY SOLVED"
    ELSE "OK"

----------------------------------------------------------------------------
(* Session resolution over all combinations of its sources *)

SeqsUpTo(S, n) == UNION {[1..k -> S] : k \in 0..n}

SessionChars == {SP, Tok("s", 0)}
\* a source: absent, or a string that may be empty or whitespace only
SessionSources == {NoValue} \cup {Some(t) : t \in SeqsUpTo(SessionChars, MaxLen)}

\* the state the scaffolder and the harness are idle in
Idle ==
    /\ pc = "start"
    /\ last = NoCall
    /\ requested = {}
    /\ written = {}
    /\ runs = 0
    /\ out = Missing
    /\ verdict = "NONE"

InitSession ==
    /\ Idle
    /\ day \in Days
    /\ \E f \in SessionSources, g \in SessionSources :
        fs = [EmptyFs EXCEPT ![DayDir(day)] = Some(<<>>),
                             ![SessionFile] = f,
                             ![DaySessionFile(day)] = g]
    /\ shellenv \in SessionSources
    /\ environ = shellenv
    /\ \E e \in SessionSources : args = [NoArgs EXCEPT !.session = e]
    /\ hpc = "boot"
    /\ body = <<>>
    /\ Untried

\* main of the scaffolder: session_id = load_session(args.session), exported
ScaffolderSession ==
    /\ hpc = "boot"
    /\ LET s == load_session(args.session, shellenv, fs[SessionFile]) IN
        /\ out' = s
        /\ environ' = IF s.ok THEN Some(s.text) ELSE environ
    /\ hpc' = "scaffolder_session"
    /\ UNCHANGED <<fs, shellenv, args, pc, day, last, requested, written, runs, body, verdict, remote, fs0, crash>>

\* import of the harness: SESSION_ID = load_session()
HarnessSession ==
    /\ hpc = "boot"
    /\ out' = harness_load_session(shellenv, fs[DaySessionFile(day)], fs[SessionFile])
    /\ hpc' = "harness_session"
    /\ UNCHANGED <<fs, shellenv, environ, args, pc, day, last, requested, written, runs, body, verdict, remote, fs0, crash>>

NextSession == ScaffolderSession \/ HarnessSession

SpecSession == InitSession /\ [][NextSession]_vars

----------------------------------------------------------------------------
(* Input caching over all response bodies *)

InputChars == {Tok("3", 0), NL}
InputTexts == SeqsUpTo(InputChars, MaxInput)

InitInput ==
    /\ Idle
    /\ day \in Days
    /\ fs = [EmptyFs EXCEPT ![DayDir(day)] = Some(<<>>)]
    /\ shellenv = NoValue
    /\ environ = NoValue
    /\ args = NoArgs
    /\ hpc = "boot"
    /\ body = <<>>
    /\ Untried

\* process_day of the scaffolder is answered 200 to its input request
ScaffolderSaveInput ==
    /\ hpc # "off"
    /\ \E text \in InputTexts :
        /\ body' = text
        /\ fs' = save_input([fs |-> fs, written |-> {}], text, day).fs
    /\ hpc' = "saved"
    /\ UNCHANGED <<shellenv, environ, args, pc, day, last, requested, written, runs, out, verdict, remote, fs0, crash>>

\* the harness calls get_input(DAY, year)
HarnessGetInput ==
    /\ hpc # "off"
    /\ \E text \in InputTexts, s \in Statuses :
        LET r == get_input([fs |-> fs, written |-> {}], day, InputResponse(s, text)) IN
        /\ body' = text
        /\ fs' = r.w.fs
        /\ out' = r.ret
        /\ hpc' = r.how
    /\ UNCHANGED <<shellenv, environ, args, pc, day, last, requested, written, runs, verdict, remote, fs0, crash>>

NextInput == ScaffolderSaveInput \/ HarnessGetInput

SpecInput == InitInput /\ [][NextInput]_vars

----------------------------------------------------------------------------
(* Submission over all response bodies *)

InitSubmit ==
    /\ Idle
    /\ day \in Days
    /\ fs = [EmptyFs EXCEPT ![DayDir(day)] = Some(<<>>)]
    /\ shellenv = NoValue
    /\ environ = NoValue
    /\ args = NoArgs
    /\ hpc = "boot"
    /\ body \in SeqsUpTo(Phrases, MaxBody)
    /\ Untried

\* submit(day, level, answer, year, confirm), answered with body; the user may
\* interrupt the confirmation prompt
Submit ==
    /\ hpc = "boot"
    /\ \E confirm \in BOOLEAN, interrupt \in BOOLEAN :
        IF confirm /\ interrupt
        THEN /\ hpc' = "cancelled"
             /\ verdict' = verdict
        ELSE /\ hpc' = "submitted"
             /\ verdict' = Classify(body)
    /\ UNCHANGED <<fs, shellenv, environ, args, pc, day, last, requested, written, runs, body, out, remote, fs0, crash>>

NextSubmit == Submit

SpecSubmit == InitSubmit /\ [][NextSubmit]_vars

----------------------------------------------------------------------------
(* Properties of the day-range driver *)

\* the paths and requests of the days after d
LaterPaths(d) == {p \in Paths : p.d > d}
LaterRequests(d) == {r \in requested : r.d > d}

\* a process_day call has just returned: the step of ProcessDay
CallStep == pc = "loop" /\ day <= args.end_day /\ pc' # "loop"

\* C1: when the page of a day answers 404, process_day has created the folder
\* Day_NN, with the Python stub when template copy is enabled (and the template
\* file is there) and the Rust stub when Rust scaffolding is enabled, and the
\* driver has halted: no request for and no write to a later day in this run,
\* and no further step of this run.
C1_Created ==
    last.status = StatusNotFound =>
        /\ fs[DayDir(last.day)].exists
        /\ (args.copy_template /\ fs[TEMPLATE_FILE].exists) => fs[SolutionPath(last.day)].exists
        /\ args.scaffold_rust => fs[BinPath(last.day)].exists
        /\ pc = "done"
        /\ day = last.day
        /\ LaterRequests(last.day) = {}
        /\ written \cap LaterPaths(last.day) = {}

C1_Halted ==
    last.status = StatusNotFound => (runs' = runs + 1 /\ requested' = {} /\ written' = {})

C1_NotReleasedHalts == []C1_Created /\ [][C1_Halted]_vars

C1_Witness ==
    /\ last.status = StatusNotFound
    /\ last.day < args.end_day
    /\ args.copy_template
    /\ args.scaffold_rust
    /\ DayDir(last.day) \in written
    /\ SolutionPath(last.day) \in written
    /\ BinPath(last.day) \in written

\* the statuses and pages on which process_day tells main to stop
Unavailable(call) ==
    \/ call.status = StatusNotFound
    \/ call.status = StatusOk /\ call.articles = 0

\* C9: the driver halts exactly when the page of a day answers 404 or 200
\* without articles; on any other answer, another non-200 status included
\* (then nothing of the day is written), it sleeps and goes on with the next
\* day, until the range ends.
C9_Decision ==
    last.day # 0 =>
        /\ last.ok <=> ~Unavailable(last)
        /\ ~last.ok => (pc = "done" /\ day = last.day)
        /\ (last.ok /\ day = last.day) => pc = "sleep"
        /\ last.status \notin {StatusOk, StatusNotFound} =>
                {p \in written : p.d = last.day} = {}

C9_Order ==
    /\ CallStep => last'.day = day
    /\ pc = "sleep" => (pc' = "loop" /\ day' = day + 1)
    /\ (pc = "loop" /\ day > args.end_day) => (pc' = "done" /\ last' = last)

C9_HaltExactlyWhenUnavailable == []C9_Decision /\ [][C9_Order]_vars

C9_Witness ==
    /\ pc = "loop"
    /\ last.status = StatusError
    /\ day = last.day + 1
    /\ day <= args.end_day

----------------------------------------------------------------------------
(* Properties of the scaffolding *)

\* the calls of process_day that get to scaffold the templates
Scaffolds(call) ==
    \/ call.status = StatusNotFound
    \/ call.status = StatusOk /\ call.articles > 0

Unchanged(p) == fs'[p] = fs[p]

\* C3: without the force flag no step of a scaffolder run changes a solution
\* stub that exists, Python or Rust, whatever the page answers.
C3_Step ==
    (pc = "loop" /\ ~args.force_template) =>
        \A d \in Days :
            /\ fs[SolutionPath(d)].exists => Unchanged(SolutionPath(d))
            /\ fs[BinPath(d)].exists => Unchanged(BinPath(d))

C3_StubKeptWithoutForce == [][C3_Step]_vars

C3_Witness ==
    /\ runs > 1
    /\ ~args.force_template
    /\ args.copy_template
    /\ args.scaffold_rust
    /\ last.status = StatusNotFound
    /\ last.day = 1
    /\ fs[TEMPLATE_FILE].exists
    /\ fs[SolutionPath(1)] = Some(EditedText)
    /\ fs[BinPath(1)] = Some(EditedText)
    /\ fs[InstructionsOne(1)].exists

\* C4 as claimed: with the force flag, a scaffolding call leaves fresh template
\* content in the existing stub of each configured language.
C4_Step_Claimed ==
    (CallStep /\ args.force_template /\ Scaffolds(last')) =>
        /\ (args.copy_template /\ fs[SolutionPath(day)].exists) =>
                fs'[SolutionPath(day)] = Some(PyTemplateText)
        /\ (args.scaffold_rust /\ fs[BinPath(day)].exists) =>
                fs'[BinPath(day)].text \in
                    {<<Tok("DAY", day), Tok("DAY_PAD", day), NL>>,
                     <<Tok("fallback", 0), Tok("DAY", day), NL>>}

C4_ForceReplacesEveryStub == [][C4_Step_Claimed]_vars

\* C4 as amended: with the force flag, a scaffolding call copies the template
\* over an existing Solution_NN.py when template copy is enabled and the
\* template file exists; an existing dayNN.rs is left as it is.
C4_Step ==
    (CallStep /\ args.force_template /\ Scaffolds(last')) =>
        /\ (args.copy_template /\ fs[SolutionPath(day)].exists /\ fs[TEMPLATE_FILE].exists) =>
                fs'[SolutionPath(day)] = Some(PyTemplateText)
        /\ (args.copy_template /\ fs[SolutionPath(day)].exists /\ ~fs[TEMPLATE_FILE].exists) =>
                Unchanged(SolutionPath(day))
        /\ fs[BinPath(day)].exists => Unchanged(BinPath(day))

C4_ForceReplacesPythonStub == [][C4_Step]_vars

C4_Witness ==
    /\ args.force_template
    /\ args.copy_template
    /\ args.scaffold_rust
    /\ last.day = 1
    /\ Scaffolds(last)
    /\ fs[SolutionPath(1)] = Some(PyTemplateText)
    /\ fs[BinPath(1)] = Some(EditedText)
    /\ ~fs[RUST_TEMPLATE_FILE].exists

\* the number of lines of a manifest that name the target dayNN
RECURSIVE CountName(_, _)
CountName(text, d) ==
    IF text = <<>> THEN 0
    ELSE (IF Head(text) = Tok("name", d) THEN 1 ELSE 0) + CountName(Tail(text), d)

\* C7: the manifest never names a target twice, and a step of a run on a day
\* whose target the manifest names leaves the manifest as it is.
C7_AtMostOnce ==
    \A d \in Days : CountName(fs[CargoToml].text, d) <= 1

C7_Step ==
    (pc = "loop" /\ fs[CargoToml].exists /\ NamePresent(fs[CargoToml].text, day)) =>
        Unchanged(CargoToml)

C7_RegistrationIdempotent == []C7_AtMostOnce /\ [][C7_Step]_vars

C7_Witness ==
    /\ args.scaffold_rust
    /\ last.day = 1
    /\ last.status = StatusNotFound
    /\ fs[CargoToml] = Some(Manifest \o BinBlock(1))
    /\ CargoToml \notin written

\* C8: on a 200 page of one article process_day writes instructions-one.md and
\* not instructions-two.md; on a page of two or more it writes both, the first
\* article to the one and the second to the other.
C8_Instructions ==
    (last.status = StatusOk /\ last.articles >= 1) =>
        /\ InstructionsOne(last.day) \in written
        /\ fs[InstructionsOne(last.day)] = Some(<<Tok("md", 1)>>)
        /\ last.articles = 1 => InstructionsTwo(last.day) \notin written
        /\ last.articles >= 2 =>
            /\ InstructionsTwo(last.day) \in written
            /\ fs[InstructionsTwo(last.day)] = Some(<<Tok("md", 2)>>)

C8_Witness ==
    /\ last.status = StatusOk
    /\ last.articles = 1
    /\ InstructionsOne(last.day) \in written
    /\ fs[InstructionsTwo(last.day)].exists

\* C10: when the input request is answered with a status other than 200,
\* process_day leaves the day's input files as they are, scaffolds the
\* templates and returns True, so that the run goes on.
C10_Step ==
    (CallStep /\ last'.status = StatusOk /\ last'.articles > 0
        /\ last'.input_status # StatusOk) =>
        /\ Unchanged(InputPadded(day))
        /\ Unchanged(InputPrimary(day))
        /\ Unchanged(InputUnpadded(day))
        /\ (args.copy_template /\ fs[TEMPLATE_FILE].exists) => fs'[SolutionPath(day)].exists
        /\ args.scaffold_rust => fs'[BinPath(day)].exists
        /\ (args.scaffold_rust /\ fs[CargoToml].exists) => NamePresent(fs'[CargoToml].text, day)
        /\ last'.ok
        /\ pc' = "sleep"

C10_InputFailureKeepsCache == [][C10_Step]_vars

C10_Witness ==
    /\ pc = "sleep"
    /\ last.status = StatusOk
    /\ last.input_status = StatusError
    /\ fs[InputPadded(last.day)].exists
    /\ args.copy_template
    /\ args.scaffold_rust
    /\ SolutionPath(last.day) \in written
    /\ BinPath(last.day) \in written

----------------------------------------------------------------------------
(* Properties of the harness functions *)

\* the phrases a body holds
PhrasesOf(text) == {text[i] : i \in 1..Len(text)}
Has(phrase) == phrase \in PhrasesOf(body)

\* C2 as claimed: the rate-limit phrase first, then "too low", then "too high",
\* then the wrong-answer phrase, then the already-solved phrase, else OK.
C2_VerdictClaimed ==
    hpc = "submitted" =>
        verdict = IF Has(RateLimitPhrase) THEN "TOO MANY REQUESTS"
                  ELSE IF Has(TooLowPhrase) THEN "WRONG (TOO LOW)"
                  ELSE IF Has(TooHighPhrase) THEN "WRONG (TOO HIGH)"
                  ELSE IF Has(WrongPhrase) THEN "WRONG"
                  ELSE IF Has(SolvedPhrase) THEN "ALREADY SOLVED"
                  ELSE "OK"

\* C2 as amended: the rate-limit phrase first; "too low" and "too high" count
\* only in a body that holds the wrong-answer phrase, "too low" before "too
\* high"; a body without the rate-limit and the wrong-answer phrase is
\* ALREADY SOLVED when it holds the already-solved phrase and OK otherwise.
C2_Verdict ==
    hpc = "submitted" =>
        /\ Has(RateLimitPhrase) => verdict = "TOO MANY REQUESTS"
        /\ (~Has(RateLimitPhrase) /\ Has(WrongPhrase)) =>
            /\ Has(TooLowPhrase) => verdict = "WRONG (TOO LOW)"
            /\ (~Has(TooLowPhrase) /\ Has(TooHighPhrase)) => verdict = "WRONG (TOO HIGH)"
            /\ (~Has(TooLowPhrase) /\ ~Has(TooHighPhrase)) => verdict = "WRONG"
        /\ (~Has(RateLimitPhrase) /\ ~Has(WrongPhrase)) =>
            /\ Has(SolvedPhrase) => verdict = "ALREADY SOLVED"
            /\ ~Has(SolvedPhrase) => verdict = "OK"

C2_Witness ==
    /\ hpc = "submitted"
    /\ Has(TooLowPhrase)
    /\ Has(SolvedPhrase)
    /\ ~Has(WrongPhrase)
    /\ ~Has(RateLimitPhrase)
    /\ verdict = "ALREADY SOLVED"

\* a source that yields a non-empty value
NonEmpty(src) == src.exists /\ \E i \in 1..Len(src.text) : src.text[i] \notin Whitespace

\* C5: load_session returns the value of the first of explicit override,
\* AOC_SESSION_ID and SessionID.txt that is non-empty, never an empty token,
\* and fails exactly when none of them is non-empty.
C5_FirstNonEmptySource ==
    hpc = "scaffolder_session" =>
        LET srcs == <<args.session, shellenv, fs[SessionFile]>>
            hits == {i \in 1..3 : NonEmpty(srcs[i])}
        IN  IF hits = {} THEN ~out.ok
            ELSE /\ out.ok
                 /\ out.text # <<>>
                 /\ out.text = Strip(srcs[CHOOSE i \in hits : \A j \in hits : i <= j].text,
                                     Whitespace)

\* t is s without the newlines s ends with
IsWithoutTrailingNewlines(t, s) ==
    /\ Len(t) <= Len(s)
    /\ t = SubSeq(s, 1, Len(t))
    /\ \A i \in (Len(t) + 1)..Len(s) : s[i] = NL
    /\ t # <<>> => t[Len(t)] # NL

\* C6 as claimed: once a 200 body is cached, by save_input or by cache_input,
\* input.txt and input_NN.txt both hold the body without its trailing newline.
C6_StrippedUnderEveryName ==
    hpc \in {"saved", "cached"} =>
        /\ fs[InputPrimary(day)].exists
        /\ fs[InputPadded(day)].exists
        /\ IsWithoutTrailingNewlines(fs[InputPrimary(day)].text, body)
        /\ IsWithoutTrailingNewlines(fs[InputPadded(day)].text, body)

\* C6 as amended: save_input writes the body without its trailing newlines to
\* input_NN.txt and to no other file; cache_input writes the body as it is to
\* input.txt and to input_NN.txt.
C6_Step ==
    /\ hpc' = "saved" =>
        /\ fs'[InputPadded(day)].exists
        /\ IsWithoutTrailingNewlines(fs'[InputPadded(day)].text, body')
        /\ \A p \in Paths \ {InputPadded(day)} : Unchanged(p)
    /\ hpc' = "cached" =>
        /\ fs'[InputPrimary(day)] = Some(body')
        /\ fs'[InputPadded(day)] = Some(body')
        /\ \A p \in Paths \ {InputPrimary(day), InputPadded(day)} : Unchanged(p)

C6_InputCached == [][C6_Step]_vars

C6_Witness ==
    /\ hpc = "saved"
    /\ body = <<Tok("3", 0), NL>>
    /\ fs[InputPadded(day)] = Some(<<Tok("3", 0)>>)
    /\ ~fs[InputPrimary(day)].exists

----------------------------------------------------------------------------
(* C11: re-processing *)

\* what one single uninterrupted run leaves of the filesystem the first run
\* started from
SingleRun ==
    IF load_session(args.session, shellenv, fs0[SessionFile]).ok
    THEN RunFrom([fs |-> fs0, written |-> {}], args.start_day, args).fs
    ELSE fs0

\* the second run has ended
RerunEnded == runs = 2 /\ pc \in {"done", "exit"}

\* the days the second run has fetched and persisted
Persisted(d) == remote[d].status = StatusOk /\ remote[d].page.articles # <<>>

\* the files of day d hold what the remote service answered
FreshContent(d) ==
    LET page == remote[d].page
        example == extract_example(page)
    IN  /\ fs[InstructionsOne(d)] = Some(Strip(Html2Text(page.articles[1]), {NL}))
        /\ Len(page.articles) > 1 =>
               fs[InstructionsTwo(d)] = Some(Strip(Html2Text(page.articles[2]), {NL}))
        /\ example.exists /\ example.text # <<>> =>
               fs[ExampleFile(d)] = Some(example.text)
        /\ remote[d].input.status = StatusOk =>
               fs[InputPadded(d)] = Some(RStrip(remote[d].input.text, {NL}))

\* the manifest names the bin of day d as often as one run makes it
NotDuplicated(d) ==
    fs[CargoToml].exists =>
        /\ CountName(fs[CargoToml].text, d) = CountName(SingleRun[CargoToml].text, d)
        /\ ~NamePresent(fs0[CargoToml].text, d) => CountName(fs[CargoToml].text, d) <= 1

\* C11: without --force-template and with the same answers of the remote
\* service, a run that follows a run which completed or was interrupted
\* between two writes leaves every file (day folders, stubs, manifest) as one
\* single uninterrupted run leaves it; the instruction, example and input
\* files of the persisted days hold the fetched content, and no bin is
\* registered twice
C11_RerunAsSingleRun ==
    RerunEnded =>
        /\ fs = SingleRun
        /\ \A d \in Days : Persisted(d) => FreshContent(d)
        /\ \A d \in Days : NotDuplicated(d)

\* the first run was killed between the write of the Rust stub and its
\* registration, on a day the remote service served; the second run ended and
\* registered the bin
C11_Witness ==
    /\ RerunEnded
    /\ pc = "done"
    /\ crash.day \in Days
    /\ Persisted(crash.day)
    /\ crash.writes = 7
    /\ args.scaffold_rust
    /\ ~fs0[BinPath(crash.day)].exists
    /\ fs0[CargoToml].exists
    /\ ~NamePresent(fs0[CargoToml].text, crash.day)
    /\ CountName(fs[CargoToml].text, crash.day) = 1
    /\ fs[InputPadded(crash.day)] = Some(<<Tok("1", 0)>>)

====
